---- MODULE Spec2Model ----
(***************************************************************************)
(* Model of gazebo/gui/plot/IntrospectionCurveHandler.cc: the registry of  *)
(* plot curves per variable name, the reference-counted introspection      *)
(* filter, the one-shot setup thread and the update dispatcher.            *)
(*                                                                         *)
(* Every method body runs under the handler's single std::mutex           *)
(* (lock_guard on its first line), so each method is one atomic action.    *)
(*                                                                         *)
(* A double d is represented by the integer d * NSecPerSec (fixed point),  *)
(* a quaternion by the record of its Euler angles.                         *)
(***************************************************************************)
EXTENDS Integers, Sequences, FiniteSets, TLC

VARIABLES
  curves,                 \* std::map<std::string, CurveVariableSet> curves
  alive,                  \* plot curves whose shared_ptr still exists
  items,                  \* item URIs registered on the remote manager
  managerId,              \* std::string managerId
  introspectFilter,       \* std::set<std::string> introspectFilter
  introspectFilterCount,  \* std::map<std::string, int> introspectFilterCount
  introspectFilterId,     \* std::string introspectFilterId
  remoteFilter,           \* the filter as the remote manager holds it
  setup,                  \* outcome of the SetupIntrospection thread
  subscribed,             \* ignNode.Subscribe succeeded
  points,                 \* the points of every curve (PlotCurve::AddPoint)
  msg,                    \* the batch of the last OnIntrospection call
  appended,               \* <<curve, x, y>> appended by that call, in order
  batches,                \* number of delivered batches
  terminated,             \* an exception left OnIntrospection
  mutex,                  \* the thread that holds std::mutex mutex, "" if none
  pc,                     \* where each thread is inside a method body
  arg,                    \* the arguments of the call each thread is in
  buffer                  \* curvesUpdates and simTime of the call in progress

vars == <<curves, alive, items, managerId, introspectFilter,
          introspectFilterCount, introspectFilterId, remoteFilter, setup,
          subscribed, points, msg, appended, batches, terminated, mutex, pc,
          arg, buffer>>

----------------------------------------------------------------------------
(* Bounds of the model *)

\* batches delivered in one behaviour
MaxBatches == 1

\* parameters of a batch
MaxParams == 3

\* AddCurve calls that built the registry a batch is dispatched to
MaxAdds == 1

\* curve references the registry holds at a time
MaxHeld == 2

----------------------------------------------------------------------------
(* std::string *)

\* the characters of the names, in ASCII order
Alphabet == "/0123456789:=?ABCDEFGHIJKLMNOPQRSTUVWXYZ_abcdefghijklmnopqrstuvwxyz"

Ord(c) == CHOOSE i \in 1..Len(Alphabet) : SubSeq(Alphabet, i, i) = c

Char(s, i) == SubSeq(s, i, i)

Min(a, b) == IF a < b THEN a ELSE b

\* std::string operator< (lexicographic), the order of std::set and std::map
StrLess(a, b) ==
  LET n == Min(Len(a), Len(b))
      diff == {i \in 1..n : Char(a, i) # Char(b, i)}
  IN  IF diff = {}
      THEN Len(a) < Len(b)
      ELSE LET k == CHOOSE i \in diff : \A j \in diff : i <= j
           IN  Ord(Char(a, k)) < Ord(Char(b, k))

\* std::string::find(sub): the first position (from 1) of sub in s, 0 for npos
Find(s, sub) ==
  LET hits == {i \in 1..(Len(s) - Len(sub) + 1) :
                 SubSeq(s, i, i + Len(sub) - 1) = sub}
  IN  IF hits = {} THEN 0 ELSE CHOOSE i \in hits : \A j \in hits : i <= j

\* s.find(sub) == 0 in the source: sub is a prefix of s
StartsWith(s, sub) == Find(s, sub) = 1

\* s.find(sub) != std::string::npos
Contains(s, sub) == Find(s, sub) # 0

----------------------------------------------------------------------------
(* common::URI, scheme://path?query *)

kSchemeDelim == "://"

URIValid(str) ==
  /\ Find(str, kSchemeDelim) > 1
  /\ Len(str) > Find(str, kSchemeDelim) + Len(kSchemeDelim) - 1

\* the text after the scheme delimiter
URIRest(str) ==
  SubSeq(str, Find(str, kSchemeDelim) + Len(kSchemeDelim), Len(str))

URIPath(str) ==
  IF ~URIValid(str) THEN ""
  ELSE LET r == URIRest(str)
       IN  IF Find(r, "?") = 0 THEN r ELSE SubSeq(r, 1, Find(r, "?") - 1)

\* URIQuery::Str(): empty when the URI has no query, else "?" and the query
URIQueryStr(str) ==
  IF ~URIValid(str) THEN ""
  ELSE LET r == URIRest(str)
       IN  IF Find(r, "?") = 0 \/ Find(r, "?") = Len(r)
           THEN ""
           ELSE SubSeq(r, Find(r, "?"), Len(r))

----------------------------------------------------------------------------
(* Names *)

\* IntrospectionCurveHandlerPrivate::simTimeVar
simTimeVar == "data://world/default?p=sim_time"

\* items a manager publishes
PoseItem == "data://robot?p=pose/world_pose"
VelItem == "data://robot?p=vector3d/vel"
RotItem == "data://robot?p=quaterniond/rot"

\* variable names the plotting widget asks for
PosX == "data://robot?p=pose/world_pose/vector3/position/double/x"
OriRoll == "data://robot?p=pose/world_pose/vector3/orientation/double/roll"
OriYaw == "data://robot?p=pose/world_pose/vector3/orientation/double/yaw"
PoseScale == "data://robot?p=pose/world_pose/vector3/scale/double/x"
VelX == "data://robot?p=vector3d/vel/double/x"
VelY == "data://robot?p=vector3d/vel/double/y"
VelZ == "data://robot?p=vector3d/vel/double/z"
RotRoll == "data://robot?p=quaterniond/rot/double/roll"
RotPitch == "data://robot?p=quaterniond/rot/double/pitch"
RotYaw == "data://robot?p=quaterniond/rot/double/yaw"
RotPitchYaw == "data://robot?p=quaterniond/rot/double/pitch_yaw"
Dog == "Dog"

\* an item with a scalar value, and the name asked for it
ValueItem == "data://robot?p=value/v"
ValueX == "data://robot?p=value/v/double/x"
ValueY == "data://robot?p=value/v/double/y"

\* the manager ids WaitForManagers can return first
ManagerName == "m"

\* the id NewFilter gives the filter
FilterName == "f"

Curves == {"c1", "c2"}

\* the items of the manager, with and without the sim-time variable
ItemSets == {{simTimeVar, PoseItem, VelItem}, {PoseItem, VelItem}}

\* the names AddCurve is called with
Names == {simTimeVar, PosX, OriRoll, Dog}

\* every string of the model; the tables below hold the results of the
\* string functions on them, computed once
Strings ==
  {"", ManagerName, simTimeVar, PoseItem, VelItem, RotItem, PosX, OriRoll,
   OriYaw, PoseScale, VelX, VelY, VelZ, RotRoll, RotPitch, RotYaw,
   RotPitchYaw, Dog, ValueItem, ValueX, ValueY} \cup Curves

\* the position of a string in the order of std::set and std::map
Rank == [a \in Strings |-> Cardinality({b \in Strings : StrLess(b, a)})]

\* the first element of the non-empty string set S in iteration order
First(S) == CHOOSE x \in S : \A y \in S : Rank[x] <= Rank[y]

\* the elements of the string set S in iteration order
RECURSIVE Sorted(_)
Sorted(S) ==
  IF S = {}
  THEN <<>>
  ELSE <<First(S)>> \o Sorted(S \ {First(S)})

StartsWithT == [s \in Strings |-> [sub \in Strings |-> StartsWith(s, sub)]]

----------------------------------------------------------------------------
(* util::IntrospectionClient *)

\* IntrospectionClient::Items(managerId, items): the request to the manager
\* fails, and leaves the set empty, when there is no manager of that id
Items(its, id) == IF id = "" THEN {} ELSE its

\* IntrospectionClient::UpdateFilter(managerId, filterId, filter): needs the
\* manager and the filter to exist; ok is whether the request gets through
UpdateFilter(id, filterId, remote, filter, ok) ==
  IF id # "" /\ filterId # "" /\ ok THEN filter ELSE remote

----------------------------------------------------------------------------
(* Filter reference counting *)

\* the test of both filter loops: equal paths, and the query of the item is
\* a prefix of the query of the name
Matches(name, item) ==
  /\ URIPath(name) = URIPath(item)
  /\ StartsWith(URIQueryStr(name), URIQueryStr(item))

MatchesT == [name \in Strings |-> [item \in Strings |-> Matches(name, item)]]

URIValidT == [name \in Strings |-> URIValid(name)]

\* the item at which the loop over the items stops: the first match in the
\* order of the set, "" when the loop runs to its end
FirstMatch(its, name) ==
  LET hits == {item \in its : MatchesT[name][item]}
  IN  IF hits = {} THEN "" ELSE First(hits)

\* introspectFilterCount[item] of std::map: a missing key reads as 0
CountOf(count, item) == IF item \in DOMAIN count THEN count[item] ELSE 0

SetCount(count, item, n) ==
  [k \in DOMAIN count \cup {item} |-> IF k = item THEN n ELSE count[k]]

EraseCount(count, item) == [k \in DOMAIN count \ {item} |-> count[k]]

\* AddItemToFilter undoing the insertion when the push fails
AddItemToFilterRollsBack(F, its, id, filterId, name, ok) ==
  LET item == FirstMatch(Items(its, id), name)
  IN  IF ~URIValidT[name] \/ item = ""
      THEN F
      ELSE IF item \notin F.filter
           THEN IF id # "" /\ filterId # "" /\ ok
                THEN [filter |-> F.filter \cup {item},
                      count |-> SetCount(F.count, item, 1),
                      remote |-> F.filter \cup {item}]
                ELSE F
           ELSE [F EXCEPT !.count =
                   SetCount(F.count, item, CountOf(F.count, item) + 1)]

\* F is [filter, count, remote]; the result is F after the call
AddItemToFilter(F, its, id, filterId, name, ok) ==
  LET item == FirstMatch(Items(its, id), name)
  IN  IF ~URIValidT[name] \/ item = ""
      THEN F
      ELSE IF item \notin F.filter
           THEN [filter |-> F.filter \cup {item},
                 count |-> SetCount(F.count, item, 1),
                 remote |-> UpdateFilter(id, filterId, F.remote,
                                         F.filter \cup {item}, ok)]
           ELSE [F EXCEPT !.count =
                   SetCount(F.count, item, CountOf(F.count, item) + 1)]

\* RemoveItemFromFilter with the erase of the count forgotten
RemoveItemFromFilterKeepsCount(F, its, id, filterId, name, ok) ==
  LET item == FirstMatch(Items(its, id), name)
  IN  IF ~URIValidT[name] \/ item = "" \/ item \notin F.filter
      THEN F
      ELSE IF CountOf(F.count, item) - 1 = 0
           THEN [filter |-> F.filter \ {item},
                 count |-> SetCount(F.count, item, 0),
                 remote |-> UpdateFilter(id, filterId, F.remote,
                                         F.filter \ {item}, ok)]
           ELSE [F EXCEPT !.count =
                   SetCount(F.count, item, CountOf(F.count, item) - 1)]

RemoveItemFromFilter(F, its, id, filterId, name, ok) ==
  LET item == FirstMatch(Items(its, id), name)
  IN  IF ~URIValidT[name] \/ item = "" \/ item \notin F.filter
      THEN F
      ELSE IF CountOf(F.count, item) - 1 = 0
           THEN [filter |-> F.filter \ {item},
                 count |-> EraseCount(F.count, item),
                 remote |-> UpdateFilter(id, filterId, F.remote,
                                         F.filter \ {item}, ok)]
           ELSE [F EXCEPT !.count =
                   SetCount(F.count, item, CountOf(F.count, item) - 1)]

----------------------------------------------------------------------------
(* Curve registry *)

\* AddCurve taking a filter reference on every call, not only when it
\* creates the entry
AddCurveToCountsEveryCall(H, live, its, id, filterId, name, c, ok) ==
  LET F == AddItemToFilter(
             [filter |-> H.filter, count |-> H.count, remote |-> H.remote],
             its, id, filterId, name, ok)
  IN  IF c \notin live
      THEN H
      ELSE [curves |-> [n \in DOMAIN H.curves \cup {name} |->
                          IF n = name /\ name \notin DOMAIN H.curves THEN {c}
                          ELSE IF n = name THEN H.curves[n] \cup {c}
                          ELSE H.curves[n]],
            filter |-> F.filter, count |-> F.count, remote |-> F.remote]

\* H is [curves, filter, count, remote]; the result is H after the call
AddCurveTo(H, live, its, id, filterId, name, c, ok) ==
  IF c \notin live
  THEN H
  ELSE IF name \notin DOMAIN H.curves
       THEN LET F == AddItemToFilter(
                       [filter |-> H.filter, count |-> H.count,
                        remote |-> H.remote], its, id, filterId, name, ok)
            IN  [curves |-> [n \in DOMAIN H.curves \cup {name} |->
                               IF n = name THEN {c} ELSE H.curves[n]],
                 filter |-> F.filter, count |-> F.count, remote |-> F.remote]
       ELSE [H EXCEPT !.curves[name] = @ \cup {c}]

\* the first entry, in the order of the map, whose set holds the curve
FirstHolding(cv, c) ==
  LET hits == {n \in DOMAIN cv : c \in cv[n]}
  IN  IF hits = {} THEN "" ELSE First(hits)

\* the registry without the curve c in the set of name, and without the
\* entry if that empties it
WithoutCurve(cv, name, c) ==
  IF cv[name] \subseteq {c}
  THEN [n \in DOMAIN cv \ {name} |-> cv[n]]
  ELSE [cv EXCEPT ![name] = @ \ {c}]

\* RemoveCurve without the test of the weak reference: an expired curve is
\* removed like a live one
RemoveCurveFromSkipsLock(H, live, its, id, filterId, c, ok) ==
  LET name == FirstHolding(H.curves, c)
  IN  IF c \notin UNION {H.curves[n] : n \in DOMAIN H.curves}
      THEN H
      ELSE IF H.curves[name] = {c}
           THEN LET F == RemoveItemFromFilter(
                           [filter |-> H.filter, count |-> H.count,
                            remote |-> H.remote], its, id, filterId, name, ok)
                IN  [curves |-> WithoutCurve(H.curves, name, c),
                     filter |-> F.filter, count |-> F.count,
                     remote |-> F.remote]
           ELSE [H EXCEPT !.curves = WithoutCurve(H.curves, name, c)]

\* RemoveCurve going on after the first set that holds the curve: the curve
\* leaves every set, the filter reference of the first name is released
RemoveCurveFromEverySet(H, live, its, id, filterId, c, ok) ==
  LET name == FirstHolding(H.curves, c)
      holding == {n \in DOMAIN H.curves : c \in H.curves[n]}
      F == IF H.curves[name] = {c}
           THEN RemoveItemFromFilter(
                  [filter |-> H.filter, count |-> H.count,
                   remote |-> H.remote], its, id, filterId, name, ok)
           ELSE [filter |-> H.filter, count |-> H.count, remote |-> H.remote]
  IN  IF c \notin live \/ holding = {}
      THEN H
      ELSE [curves |-> [n \in {k \in DOMAIN H.curves : H.curves[k] # {c}} |->
                          H.curves[n] \ {c}],
            filter |-> F.filter, count |-> F.count, remote |-> F.remote]

\* RemoveCurve with the erase of the emptied entry forgotten
RemoveCurveFromKeepsEntry(H, live, its, id, filterId, c, ok) ==
  LET name == FirstHolding(H.curves, c)
  IN  IF c \notin live \/ c \notin UNION {H.curves[n] : n \in DOMAIN H.curves}
      THEN H
      ELSE IF H.curves[name] = {c}
           THEN LET F == RemoveItemFromFilter(
                           [filter |-> H.filter, count |-> H.count,
                            remote |-> H.remote], its, id, filterId, name, ok)
                IN  [curves |-> [H.curves EXCEPT ![name] = {}],
                     filter |-> F.filter, count |-> F.count,
                     remote |-> F.remote]
           ELSE [H EXCEPT !.curves[name] = @ \ {c}]

RemoveCurveFrom(H, live, its, id, filterId, c, ok) ==
  LET name == FirstHolding(H.curves, c)
  IN  IF c \notin live \/ c \notin UNION {H.curves[n] : n \in DOMAIN H.curves}
      THEN H
      ELSE IF H.curves[name] = {c}
           THEN LET F == RemoveItemFromFilter(
                           [filter |-> H.filter, count |-> H.count,
                            remote |-> H.remote], its, id, filterId, name, ok)
                IN  [curves |-> [n \in DOMAIN H.curves \ {name} |->
                                   H.curves[n]],
                     filter |-> F.filter, count |-> F.count,
                     remote |-> F.remote]
           ELSE [H EXCEPT !.curves[name] = @ \ {c}]

----------------------------------------------------------------------------
(* Values of gazebo::msgs::Any *)

\* common::Time::nsInSec; the unit of the fixed-point doubles
NSecPerSec == 1000000000

\* msgs::Convert(time_value) and common::Time::Double(): sec + nsec * 1e-9
TimeDouble(t) == t.sec * NSecPerSec + t.nsec

\* the conversion of an int to a double (int32 and static_cast<int>(bool))
IntDouble(i) == i * NSecPerSec

BoolInt(b) == IF b THEN 1 ELSE 0

\* a parameter without a value (has_value() is false)
NoValue == [type |-> "NONE", set |-> "none", v |-> 0]

\* type is Any::type(), set the value field that is present, v its content
AnyValue(type, set, v) == [type |-> type, set |-> set, v |-> v]

Has(value, field) == value.set = field

Vec(x, y, z) == [x |-> x, y |-> y, z |-> z]

----------------------------------------------------------------------------
(* Query decoder *)

\* the result of a decoder: ok is its return value, value the output
\* argument (d when it is not assigned), threw an exception leaving it
Decoded(ok, value, threw) == [ok |-> ok, value |-> value, threw |-> threw]

\* _query.substr(_query.size() - 1) throws std::out_of_range for an empty
\* query: size() - 1 wraps to npos, which is beyond size()
Vector3dFromQuery(query, vec, d) ==
  IF Len(query) = 0
  THEN Decoded(FALSE, d, TRUE)
  ELSE LET elem == SubSeq(query, Len(query), Len(query))
       IN  IF elem = "x" THEN Decoded(TRUE, vec.x, FALSE)
           ELSE IF elem = "y" THEN Decoded(TRUE, vec.y, FALSE)
           ELSE IF elem = "z" THEN Decoded(TRUE, vec.z, FALSE)
           ELSE Decoded(FALSE, d, FALSE)

\* euler is _quat.Euler(): x roll, y pitch, z yaw
QuaterniondFromQuery(query, euler, d) ==
  LET v1 == IF Contains(query, "roll") THEN euler.x
            ELSE IF Contains(query, "pitch") THEN euler.y
            ELSE d
  IN  IF Contains(query, "yaw")
      THEN Decoded(TRUE, euler.z, FALSE)
      ELSE Decoded(FALSE, v1, FALSE)

\* the switch on paramValue.type(): data and validData for the entry key
DecodeValue(curveVarName, value) ==
  LET queryStr == URIQueryStr(curveVarName)
  IN  CASE value.type = "DOUBLE" ->
             Decoded(TRUE, IF Has(value, "double") THEN value.v ELSE 0, FALSE)
        [] value.type = "INT32" ->
             Decoded(TRUE, IF Has(value, "int") THEN IntDouble(value.v) ELSE 0,
                     FALSE)
        [] value.type = "BOOLEAN" ->
             Decoded(TRUE, IF Has(value, "bool")
                           THEN IntDouble(BoolInt(value.v)) ELSE 0, FALSE)
        [] value.type = "TIME" ->
             Decoded(TRUE, IF Has(value, "time") THEN TimeDouble(value.v) ELSE 0,
                     FALSE)
        [] value.type = "POSE3D" ->
             IF Has(value, "pose3d")
             THEN IF Contains(queryStr, "position")
                  THEN Vector3dFromQuery(queryStr, value.v.pos, 0)
                  ELSE IF Contains(queryStr, "orientation")
                       THEN QuaterniondFromQuery(queryStr, value.v.rot, 0)
                       ELSE Decoded(FALSE, 0, FALSE)
             ELSE Decoded(FALSE, 0, FALSE)
        [] value.type = "VECTOR3D" ->
             IF Has(value, "vector3d")
             THEN Vector3dFromQuery(queryStr, value.v, 0)
             ELSE Decoded(FALSE, 0, FALSE)
        [] value.type = "QUATERNIOND" ->
             IF Has(value, "quaternion")
             THEN QuaterniondFromQuery(queryStr, value.v, 0)
             ELSE Decoded(FALSE, 0, FALSE)
        [] OTHER -> Decoded(FALSE, 0, FALSE)

----------------------------------------------------------------------------
(* Batches *)

Param(name, value) == [name |-> name, value |-> value]

Time1 == [sec |-> 1, nsec |-> 500000000]

TimeP == Param(simTimeVar, AnyValue("TIME", "time", Time1))
PoseP == Param(PoseItem, AnyValue("POSE3D", "pose3d",
                                  [pos |-> Vec(1, 2, 3), rot |-> Vec(4, 5, 6)]))
VelP == Param(VelItem, AnyValue("VECTOR3D", "vector3d", Vec(7, 8, 9)))
RotP == Param(RotItem, AnyValue("QUATERNIOND", "quaternion", Vec(10, 11, 12)))
DogP == Param(Dog, AnyValue("VECTOR3D", "vector3d", Vec(13, 14, 15)))

\* another sim time
Time2 == [sec |-> 0, nsec |-> 750000000]

TimeP2 == Param(simTimeVar, AnyValue("TIME", "time", Time2))

\* the types OnIntrospection has a case for, and the value field of each
ValueTypes ==
  {"DOUBLE", "INT32", "BOOLEAN", "TIME", "POSE3D", "VECTOR3D", "QUATERNIOND"}

FieldOf(type) ==
  CASE type = "DOUBLE" -> "double"
    [] type = "INT32" -> "int"
    [] type = "BOOLEAN" -> "bool"
    [] type = "TIME" -> "time"
    [] type = "POSE3D" -> "pose3d"
    [] type = "VECTOR3D" -> "vector3d"
    [] type = "QUATERNIOND" -> "quaternion"
    [] OTHER -> "none"

\* a double of 1.25
DoubleP == Param(ValueItem, AnyValue("DOUBLE", "double", 1250000000))

\* a parameter of the type without its value field
AbsentP(type) == Param(ValueItem, AnyValue(type, "none", 0))

\* a parameter of a type OnIntrospection has no case for
StringP == Param(ValueItem, AnyValue("STRING", "string", 0))

\* the batches of at most n parameters over the set P
BatchesOf(P, n) == UNION {[1..k -> P] : k \in 0..n}

\* the batches delivered to a handler that is being set up and used
Batches == {<<PoseP, DogP>>}

\* the parameters of the batches the dispatcher is checked on
DispatchParams == {TimeP, PoseP, VelP, RotP, DogP}

DispatchBatches == BatchesOf(DispatchParams, MaxParams)

\* the parameters of the batches the switch on the type is checked on
ValueParams ==
  {TimeP, DoubleP, StringP} \cup {AbsentP(type) : type \in ValueTypes}

\* the parameters of the batches the sim time is checked on
TimeParams == {TimeP, TimeP2, PoseP}

\* the parameters of the batches the resolution of names is checked on
ResolveParams == {TimeP, DoubleP, VelP}

\* the values of the parameters
Values == {p.value : p \in DispatchParams \cup ValueParams \cup TimeParams}

DecodeValueT ==
  [key \in Strings |-> [value \in Values |-> DecodeValue(key, value)]]

----------------------------------------------------------------------------
(* Update dispatcher *)

\* the lookup with the scan not left at the first key that starts with
\* paramName: the last such key is taken
FindEntryLastPrefix(cv, paramName) ==
  IF paramName \in DOMAIN cv
  THEN paramName
  ELSE LET hits == {key \in DOMAIN cv : StartsWithT[key][paramName]}
       IN  IF hits = {} THEN ""
           ELSE CHOOSE k \in hits : \A j \in hits : Rank[j] <= Rank[k]

\* curves.find(paramName), else the first key, in the order of the map, that
\* starts with paramName; "" for curves.end()
FindEntry(cv, paramName) ==
  IF paramName \in DOMAIN cv
  THEN paramName
  ELSE LET hits == {key \in DOMAIN cv : StartsWithT[key][paramName]}
       IN  IF hits = {} THEN "" ELSE First(hits)

\* the collecting loop going on to the next parameter once it has read the
\* sim time
CollectParamTimeOnly(cv, acc, param) ==
  IF acc.threw \/ param.name = "" \/ param.value.type = "NONE"
  THEN acc
  ELSE LET isTime == /\ ~acc.hasSimTime
                     /\ param.name = simTimeVar
                     /\ Has(param.value, "time")
           key == FindEntry(cv, param.name)
           dec == DecodeValueT[key][param.value]
       IN  IF isTime
           THEN [acc EXCEPT !.simTime = TimeDouble(param.value.v),
                            !.hasSimTime = TRUE]
           ELSE IF key = "" THEN acc
           ELSE IF dec.threw THEN [acc EXCEPT !.threw = TRUE]
           ELSE IF ~dec.ok THEN acc
           ELSE [acc EXCEPT !.updates = Append(@, <<key, dec.value>>)]

\* one turn of the collecting loop; acc is [updates, simTime, hasSimTime,
\* threw]
CollectParam(cv, acc, param) ==
  IF acc.threw \/ param.name = "" \/ param.value.type = "NONE"
  THEN acc
  ELSE LET isTime == /\ ~acc.hasSimTime
                     /\ param.name = simTimeVar
                     /\ Has(param.value, "time")
           acc1 == IF isTime
                   THEN [acc EXCEPT !.simTime = TimeDouble(param.value.v),
                                    !.hasSimTime = TRUE]
                   ELSE acc
           key == FindEntry(cv, param.name)
           dec == DecodeValueT[key][param.value]
       IN  IF key = "" THEN acc1
           ELSE IF dec.threw THEN [acc1 EXCEPT !.threw = TRUE]
           ELSE IF ~dec.ok THEN acc1
           ELSE [acc1 EXCEPT !.updates = Append(@, <<key, dec.value>>)]

RECURSIVE CollectFrom(_, _, _, _)
CollectFrom(cv, acc, m, i) ==
  IF i > Len(m) THEN acc
  ELSE CollectFrom(cv, CollectParam(cv, acc, m[i]), m, i + 1)

\* the collecting loop with simTime kept from the call before (a member
\* instead of a local of OnIntrospection)
CollectKeepsSimTime(cv, m) ==
  CollectFrom(cv, [updates |-> <<>>,
                   simTime |-> IF appended = <<>> THEN 0 ELSE appended[1][2],
                   hasSimTime |-> FALSE, threw |-> FALSE], m, 1)

\* curvesUpdates, simTime and hasSimTime after the loop over the batch
Collect(cv, m) ==
  CollectFrom(cv, [updates |-> <<>>, simTime |-> 0, hasSimTime |-> FALSE,
                   threw |-> FALSE], m, 1)

\* the curves of a set in its iteration order (std::owner_less)
CurveOrder(S) == Sorted(S)

\* the AddPoint calls of one buffered update: the live curves of its entry
UpdatePoints(cv, live, simTime, update) ==
  LET order == CurveOrder(cv[update[1]])
      F[i \in 0..Len(order)] ==
        IF i = 0 THEN <<>>
        ELSE IF order[i] \in live
             THEN Append(F[i - 1], <<order[i], simTime, update[2]>>)
             ELSE F[i - 1]
  IN  F[Len(order)]

\* the second loop going over the buffered updates from the last to the first
DispatchLastFirst(cv, live, col) ==
  LET F[i \in 0..Len(col.updates)] ==
        IF i = 0 THEN <<>>
        ELSE UpdatePoints(cv, live, col.simTime, col.updates[i]) \o F[i - 1]
  IN  IF col.threw THEN <<>> ELSE F[Len(col.updates)]

\* the AddPoint calls of the second loop, in order, for the result col of the
\* collecting loop; none when that loop was left by an exception
Dispatch(cv, live, col) ==
  LET F[i \in 0..Len(col.updates)] ==
        IF i = 0 THEN <<>>
        ELSE F[i - 1] \o UpdatePoints(cv, live, col.simTime, col.updates[i])
  IN  IF col.threw THEN <<>> ELSE F[Len(col.updates)]

\* the points of curve c among the AddPoint calls
PointsOf(calls, c) ==
  LET F[i \in 0..Len(calls)] ==
        IF i = 0 THEN <<>>
        ELSE IF calls[i][1] = c
             THEN Append(F[i - 1], <<calls[i][2], calls[i][3]>>)
             ELSE F[i - 1]
  IN  F[Len(calls)]

----------------------------------------------------------------------------
(* State *)

EmptyMap == [n \in {} |-> 0]

\* the part of the state AddCurve and RemoveCurve work on
Handler ==
  [curves |-> curves, filter |-> introspectFilter,
   count |-> introspectFilterCount, remote |-> remoteFilter]

SetHandler(H) ==
  /\ curves' = H.curves
  /\ introspectFilter' = H.filter
  /\ introspectFilterCount' = H.count
  /\ remoteFilter' = H.remote

\* the number of curve references in the registry
Held(cv) == Cardinality({p \in (DOMAIN cv) \X Curves : p[2] \in cv[p[1]]})

\* the threads that call the methods: the setup thread of the constructor,
\* the thread of the widget, the thread of the transport callbacks
Threads == {"setup", "gui", "transport"}

\* the state of the mutex and of the calls in progress
lockVars == <<mutex, pc, arg, buffer>>

NoCall == [op |-> "none"]

NoBuffer == [updates |-> <<>>, simTime |-> 0, threw |-> FALSE]

\* no thread is inside a method
Unlocked ==
  /\ mutex = ""
  /\ pc = [t \in Threads |-> "idle"]
  /\ arg = [t \in Threads |-> NoCall]
  /\ buffer = NoBuffer

\* the state the constructor leaves: nothing set, the setup thread started
Init ==
  /\ curves = EmptyMap
  /\ alive = Curves
  /\ items \in ItemSets
  /\ managerId = ""
  /\ introspectFilter = {}
  /\ introspectFilterCount = EmptyMap
  /\ introspectFilterId = ""
  /\ remoteFilter = {}
  /\ setup = "pending"
  /\ subscribed = FALSE
  /\ points = [c \in Curves |-> <<>>]
  /\ msg = <<>>
  /\ appended = <<>>
  /\ batches = 0
  /\ terminated = FALSE
  /\ Unlocked

----------------------------------------------------------------------------
(* Operations *)

\* what WaitForManagers can return
ManagerSets == {{}, {""}, {ManagerName}}

\* SetupIntrospection with the subscription made before the filter exists
SetupResultSubscribesFirst(S, its, managerIds, newFilterOk, subscribeOk) ==
  LET id == First(managerIds)
      withId == [S EXCEPT !.managerId = id]
      withFilter == [withId EXCEPT !.filter = {simTimeVar},
                                   !.count = SetCount(S.count, simTimeVar, 1),
                                   !.subscribed = subscribeOk]
      created == [withFilter EXCEPT !.filterId = FilterName,
                                    !.remote = {simTimeVar}]
  IN  IF managerIds = {}
      THEN [at |-> "noManagers", S |-> S]
      ELSE IF id = ""
      THEN [at |-> "emptyId", S |-> withId]
      ELSE IF simTimeVar \notin Items(its, id)
      THEN [at |-> "notRegistered", S |-> withId]
      ELSE IF ~subscribeOk
      THEN [at |-> "subscribeFailed", S |-> withFilter]
      ELSE IF ~newFilterOk
      THEN [at |-> "newFilterFailed", S |-> withFilter]
      ELSE [at |-> "active", S |-> created]

\* S is [managerId, filter, count, filterId, remote, subscribed]; the result
\* is S after the body of the setup thread, with the place it returned at.
\* managerIds, newFilterOk and subscribeOk are the answers of
\* WaitForManagers, NewFilter and Subscribe
SetupResult(S, its, managerIds, newFilterOk, subscribeOk) ==
  LET id == First(managerIds)
      withId == [S EXCEPT !.managerId = id]
      withFilter == [withId EXCEPT !.filter = {simTimeVar},
                                   !.count = SetCount(S.count, simTimeVar, 1)]
      created == [withFilter EXCEPT !.filterId = FilterName,
                                    !.remote = {simTimeVar}]
  IN  IF managerIds = {}
      THEN [at |-> "noManagers", S |-> S]
      ELSE IF id = ""
      THEN [at |-> "emptyId", S |-> withId]
      ELSE IF simTimeVar \notin Items(its, id)
      THEN [at |-> "notRegistered", S |-> withId]
      ELSE IF ~newFilterOk
      THEN [at |-> "newFilterFailed", S |-> withFilter]
      ELSE IF ~subscribeOk
      THEN [at |-> "subscribeFailed", S |-> created]
      ELSE [at |-> "active", S |-> [created EXCEPT !.subscribed = TRUE]]

\* the setup thread the constructor starts; it runs once
SetupIntrospection(managerIds, newFilterOk, subscribeOk) ==
  /\ setup = "pending"
  /\ ~terminated
  /\ LET r == SetupResult(
                [managerId |-> managerId, filter |-> introspectFilter,
                 count |-> introspectFilterCount,
                 filterId |-> introspectFilterId, remote |-> remoteFilter,
                 subscribed |-> subscribed],
                items, managerIds, newFilterOk, subscribeOk)
     IN  /\ setup' = r.at
         /\ managerId' = r.S.managerId
         /\ introspectFilter' = r.S.filter
         /\ introspectFilterCount' = r.S.count
         /\ introspectFilterId' = r.S.filterId
         /\ remoteFilter' = r.S.remote
         /\ subscribed' = r.S.subscribed
  /\ UNCHANGED <<curves, alive, items, points, msg, appended, batches,
                 terminated>>
  /\ UNCHANGED lockVars

\* updateOk is the answer of UpdateFilter, if the call makes one
AddCurve(name, c, updateOk) ==
  /\ ~terminated
  /\ Held(curves) < MaxHeld
  /\ SetHandler(AddCurveTo(Handler, alive, items, managerId,
                           introspectFilterId, name, c, updateOk))
  /\ UNCHANGED <<alive, items, managerId, introspectFilterId, setup,
                 subscribed, points, msg, appended, batches, terminated>>
  /\ UNCHANGED lockVars

RemoveCurve(c, updateOk) ==
  /\ ~terminated
  /\ SetHandler(RemoveCurveFrom(Handler, alive, items, managerId,
                                introspectFilterId, c, updateOk))
  /\ UNCHANGED <<alive, items, managerId, introspectFilterId, setup,
                 subscribed, points, msg, appended, batches, terminated>>
  /\ UNCHANGED lockVars

\* the widget drops the last shared_ptr of a curve
DestroyCurve(c) ==
  /\ ~terminated
  /\ c \in alive
  /\ alive' = alive \ {c}
  /\ UNCHANGED <<curves, items, managerId, introspectFilter,
                 introspectFilterCount, introspectFilterId, remoteFilter,
                 setup, subscribed, points, msg, appended, batches,
                 terminated>>
  /\ UNCHANGED lockVars

\* the body of OnIntrospection for the batch m
Deliver(m) ==
  /\ subscribed
  /\ ~terminated
  /\ msg' = m
  /\ LET col == Collect(curves, m)
     IN  /\ appended' = Dispatch(curves, alive, col)
         /\ terminated' = col.threw
  /\ points' = [c \in Curves |-> points[c] \o PointsOf(appended', c)]
  /\ batches' = batches + 1
  /\ UNCHANGED <<curves, alive, items, managerId, introspectFilter,
                 introspectFilterCount, introspectFilterId, remoteFilter,
                 setup, subscribed>>
  /\ UNCHANGED lockVars

\* the transport delivers the batch m to the subscribed callback
OnIntrospection(m) == batches < MaxBatches /\ Deliver(m)

Next ==
  \/ \E ids \in ManagerSets, n \in BOOLEAN, s \in BOOLEAN :
       SetupIntrospection(ids, n, s)
  \/ \E name \in Names, c \in Curves, ok \in BOOLEAN : AddCurve(name, c, ok)
  \/ \E c \in Curves, ok \in BOOLEAN : RemoveCurve(c, ok)
  \/ \E c \in Curves : DestroyCurve(c)
  \/ \E m \in Batches : OnIntrospection(m)

Spec == Init /\ [][Next]_vars

----------------------------------------------------------------------------
(* The methods as the threads run them: each takes the mutex in its first
   line and gives it back when it returns *)

\* a method that does not wait for the mutex
LockNoWait(t) == mutex' = t

\* std::lock_guard<std::mutex> lock(this->dataPtr->mutex): the thread waits
\* until no thread holds the mutex, then holds it
Lock(t) == mutex = "" /\ mutex' = t

\* the end of the lock_guard, at every return of the method
Unlock(t) ==
  /\ mutex' = ""
  /\ pc' = [pc EXCEPT ![t] = "idle"]
  /\ arg' = [arg EXCEPT ![t] = NoCall]

\* the thread t calls a method and gets past its first line
Enter(t, call) ==
  /\ ~terminated
  /\ pc[t] = "idle"
  /\ Lock(t)
  /\ pc' = [pc EXCEPT ![t] = "body"]
  /\ arg' = [arg EXCEPT ![t] = call]
  /\ UNCHANGED <<curves, alive, items, managerId, introspectFilter,
                 introspectFilterCount, introspectFilterId, remoteFilter,
                 setup, subscribed, points, msg, appended, batches,
                 terminated, buffer>>

\* the body of SetupIntrospection, to its return
SetupBody(managerIds, newFilterOk, subscribeOk) ==
  /\ pc["setup"] = "body"
  /\ LET r == SetupResult(
                [managerId |-> managerId, filter |-> introspectFilter,
                 count |-> introspectFilterCount,
                 filterId |-> introspectFilterId, remote |-> remoteFilter,
                 subscribed |-> subscribed],
                items, managerIds, newFilterOk, subscribeOk)
     IN  /\ setup' = r.at
         /\ managerId' = r.S.managerId
         /\ introspectFilter' = r.S.filter
         /\ introspectFilterCount' = r.S.count
         /\ introspectFilterId' = r.S.filterId
         /\ remoteFilter' = r.S.remote
         /\ subscribed' = r.S.subscribed
  /\ Unlock("setup")
  /\ UNCHANGED <<curves, alive, items, points, msg, appended, batches,
                 terminated, buffer>>

\* the body of AddCurve, to its return
AddCurveBody(updateOk) ==
  /\ pc["gui"] = "body"
  /\ arg["gui"].op = "AddCurve"
  /\ SetHandler(AddCurveTo(Handler, alive, items, managerId,
                           introspectFilterId, arg["gui"].name, arg["gui"].c,
                           updateOk))
  /\ Unlock("gui")
  /\ UNCHANGED <<alive, items, managerId, introspectFilterId, setup,
                 subscribed, points, msg, appended, batches, terminated,
                 buffer>>

\* RemoveCurve to the erase of the curve from the first set that holds it,
\* or to its return if the curve is expired or in no set
RemoveCurveErase ==
  /\ pc["gui"] = "body"
  /\ arg["gui"].op = "RemoveCurve"
  /\ LET c == arg["gui"].c
         name == FirstHolding(curves, c)
     IN  IF c \notin alive \/ name = ""
         THEN /\ Unlock("gui")
              /\ UNCHANGED curves
         ELSE /\ curves' = [curves EXCEPT ![name] = @ \ {c}]
              /\ pc' = [pc EXCEPT !["gui"] = "erased"]
              /\ arg' = [arg EXCEPT !["gui"] =
                           [op |-> "RemoveCurve", c |-> c, name |-> name]]
              /\ UNCHANGED mutex
  /\ UNCHANGED <<alive, items, managerId, introspectFilter,
                 introspectFilterCount, introspectFilterId, remoteFilter,
                 setup, subscribed, points, msg, appended, batches,
                 terminated, buffer>>

\* the rest of RemoveCurve: an emptied set gives up its filter reference and
\* its entry
RemoveCurveFinish(updateOk) ==
  /\ pc["gui"] = "erased"
  /\ LET name == arg["gui"].name
         F == RemoveItemFromFilter(
                [filter |-> introspectFilter, count |-> introspectFilterCount,
                 remote |-> remoteFilter],
                items, managerId, introspectFilterId, name, updateOk)
     IN  IF curves[name] = {}
         THEN /\ introspectFilter' = F.filter
              /\ introspectFilterCount' = F.count
              /\ remoteFilter' = F.remote
              /\ curves' = [n \in DOMAIN curves \ {name} |-> curves[n]]
         ELSE UNCHANGED <<curves, introspectFilter, introspectFilterCount,
                          remoteFilter>>
  /\ Unlock("gui")
  /\ UNCHANGED <<alive, items, managerId, introspectFilterId, setup,
                 subscribed, points, msg, appended, batches, terminated,
                 buffer>>

\* the first loop of OnIntrospection: curvesUpdates holds the entries found
OnIntrospectionCollect ==
  /\ pc["transport"] = "body"
  /\ buffer' = Collect(curves, arg["transport"].m)
  /\ pc' = [pc EXCEPT !["transport"] = "collected"]
  /\ UNCHANGED <<curves, alive, items, managerId, introspectFilter,
                 introspectFilterCount, introspectFilterId, remoteFilter,
                 setup, subscribed, points, msg, appended, batches,
                 terminated, mutex, arg>>

\* the second loop of OnIntrospection, through the buffered entries
OnIntrospectionUpdate ==
  /\ pc["transport"] = "collected"
  /\ msg' = arg["transport"].m
  /\ appended' = Dispatch(curves, alive, buffer)
  /\ terminated' = buffer.threw
  /\ points' = [c \in Curves |-> points[c] \o PointsOf(appended', c)]
  /\ batches' = batches + 1
  /\ buffer' = NoBuffer
  /\ Unlock("transport")
  /\ UNCHANGED <<curves, alive, items, managerId, introspectFilter,
                 introspectFilterCount, introspectFilterId, remoteFilter,
                 setup, subscribed>>

NextLocked ==
  \/ setup = "pending" /\ Enter("setup", [op |-> "SetupIntrospection"])
  \/ \E ids \in ManagerSets, n \in BOOLEAN, s \in BOOLEAN :
       SetupBody(ids, n, s)
  \/ \E name \in Names, c \in Curves :
       /\ Held(curves) < MaxHeld
       /\ Enter("gui", [op |-> "AddCurve", name |-> name, c |-> c])
  \/ \E ok \in BOOLEAN : AddCurveBody(ok)
  \/ \E c \in Curves : Enter("gui", [op |-> "RemoveCurve", c |-> c])
  \/ RemoveCurveErase
  \/ \E ok \in BOOLEAN : RemoveCurveFinish(ok)
  \/ \E m \in Batches :
       /\ subscribed
       /\ batches < MaxBatches
       /\ Enter("transport", [op |-> "OnIntrospection", m |-> m])
  \/ OnIntrospectionCollect
  \/ OnIntrospectionUpdate
  \/ \E c \in Curves : DestroyCurve(c)

SpecLocked == Init /\ [][NextLocked]_vars

----------------------------------------------------------------------------
(* The dispatcher on the registries that AddCurve builds *)

\* the items of the manager the batches come from
DispatchItems == {simTimeVar, PoseItem, VelItem, RotItem}

\* the names the curves are registered under
DispatchNames ==
  {simTimeVar, PosX, OriRoll, OriYaw, PoseScale, VelX, VelY, VelZ, VelItem,
   RotRoll, RotPitch, RotYaw, RotPitchYaw, Dog}

\* the handler after a SetupIntrospection that went through
ActiveHandler ==
  LET r == SetupResult(
             [managerId |-> "", filter |-> {}, count |-> EmptyMap,
              filterId |-> "", remote |-> {}, subscribed |-> FALSE],
             DispatchItems, {ManagerName}, TRUE, TRUE)
  IN  [curves |-> EmptyMap, filter |-> r.S.filter, count |-> r.S.count,
       remote |-> r.S.remote]

\* the handler after the AddCurve calls adds[1], adds[2], ...
RECURSIVE AfterAdds(_, _)
AfterAdds(adds, i) ==
  IF i = 0 THEN ActiveHandler
  ELSE AddCurveTo(AfterAdds(adds, i - 1), Curves, DispatchItems, ManagerName,
                  FilterName, adds[i][1], adds[i][2], TRUE)

\* a successful setup, then at most MaxAdds AddCurve calls, then a
\* registered curve destroyed, or none
InitDispatch ==
  \E adds \in BatchesOf(DispatchNames \X Curves, MaxAdds),
     dead \in {{}, {"c2"}} :
    LET H == AfterAdds(adds, Len(adds))
    IN  /\ \A c \in dead : \E n \in DOMAIN H.curves : c \in H.curves[n]
        /\ curves = H.curves
        /\ alive = Curves \ dead
        /\ items = DispatchItems
        /\ managerId = ManagerName
        /\ introspectFilter = H.filter
        /\ introspectFilterCount = H.count
        /\ introspectFilterId = FilterName
        /\ remoteFilter = H.remote
        /\ setup = "active"
        /\ subscribed = TRUE
        /\ points = [c \in Curves |-> <<>>]
        /\ msg = <<>>
        /\ appended = <<>>
        /\ batches = 0
        /\ terminated = FALSE
        /\ Unlocked

\* one batch is dispatched to each registry
NextDispatch == \E m \in DispatchBatches : batches = 0 /\ OnIntrospection(m)

SpecDispatch == InitDispatch /\ [][NextDispatch]_vars

\* the handler after a SetupIntrospection that went through on a manager
\* with the items its
ActiveOn(its) ==
  LET r == SetupResult(
             [managerId |-> "", filter |-> {}, count |-> EmptyMap,
              filterId |-> "", remote |-> {}, subscribed |-> FALSE],
             its, {ManagerName}, TRUE, TRUE)
  IN  [curves |-> EmptyMap, filter |-> r.S.filter, count |-> r.S.count,
       remote |-> r.S.remote]

\* that handler after the AddCurve calls adds[1], adds[2], ...
RECURSIVE AfterAddsOn(_, _, _)
AfterAddsOn(its, adds, i) ==
  IF i = 0 THEN ActiveOn(its)
  ELSE AddCurveTo(AfterAddsOn(its, adds, i - 1), Curves, its, ManagerName,
                  FilterName, adds[i][1], adds[i][2], TRUE)

\* a successful setup on a manager with the items its, then at most n
\* AddCurve calls with the names, then a registered curve destroyed, or none
InitAfterAdds(its, names, n) ==
  \E adds \in BatchesOf(names \X Curves, n), dead \in {{}, {"c2"}} :
    LET H == AfterAddsOn(its, adds, Len(adds))
    IN  /\ \A c \in dead : \E k \in DOMAIN H.curves : c \in H.curves[k]
        /\ curves = H.curves
        /\ alive = Curves \ dead
        /\ items = its
        /\ managerId = ManagerName
        /\ introspectFilter = H.filter
        /\ introspectFilterCount = H.count
        /\ introspectFilterId = FilterName
        /\ remoteFilter = H.remote
        /\ setup = "active"
        /\ subscribed = TRUE
        /\ points = [c \in Curves |-> <<>>]
        /\ msg = <<>>
        /\ appended = <<>>
        /\ batches = 0
        /\ terminated = FALSE
        /\ Unlocked

----------------------------------------------------------------------------
(* The switch on the type of the value *)

ValueItems == {simTimeVar, ValueItem}

InitValues == InitAfterAdds(ValueItems, {ValueItem}, MaxAdds)

NextValues ==
  \E m \in BatchesOf(ValueParams, MaxParams) :
    batches = 0 /\ OnIntrospection(m)

SpecValues == InitValues /\ [][NextValues]_vars

----------------------------------------------------------------------------
(* The resolution of parameter names, on registries of several entries *)

ResolveItems == {simTimeVar, ValueItem, VelItem}

ResolveNames == {ValueItem, ValueX, ValueY, VelX}

InitResolve == InitAfterAdds(ResolveItems, ResolveNames, MaxAdds + 1)

NextResolve ==
  \E m \in BatchesOf(ResolveParams, MaxParams) :
    batches = 0 /\ OnIntrospection(m)

SpecResolve == InitResolve /\ [][NextResolve]_vars

----------------------------------------------------------------------------
(* The sim time of a batch, and of the batch after it *)

TimeItems == {simTimeVar, PoseItem}

InitTime == InitAfterAdds(TimeItems, {PosX}, MaxAdds)

\* a first and a second batch
NextTime ==
  \E m \in BatchesOf(TimeParams, MaxParams) : batches <= 1 /\ Deliver(m)

SpecTime == InitTime /\ [][NextTime]_vars

----------------------------------------------------------------------------
(* Properties of the filter and the registry *)

\* the items the manager of the handler has
ManagerItems == Items(items, managerId)

\* the registered names that resolve to the item: the first item of the
\* manager with the path of the name and a query that is a prefix of its query
NamesResolvingTo(item) ==
  {n \in DOMAIN curves : URIValidT[n] /\ FirstMatch(ManagerItems, n) = item}

\* the reference SetupIntrospection itself takes on the sim-time item
SetupReference(item) ==
  IF item = simTimeVar /\ setup \in {"newFilterFailed", "subscribeFailed",
                                     "active"}
  THEN 1 ELSE 0

\* C1: every item of the filter has a reference count equal to the number of
\* registered names that resolve to it (for the sim-time item, in addition to
\* the reference SetupIntrospection gave it): the count tracks the registry
\* entries, not the curves
C1_CountTracksNames ==
  \A item \in introspectFilter :
    CountOf(introspectFilterCount, item) =
      SetupReference(item) + Cardinality(NamesResolvingTo(item))

\* C2: for every registered name that is a valid URI and has a matching item
\* on the manager, the filter holds a matching item
C2_FilterCoversNames ==
  \A n \in DOMAIN curves :
    (URIValidT[n] /\ \E item \in ManagerItems : MatchesT[n][item])
      => \E item \in introspectFilter : MatchesT[n][item]

\* C3: no registry entry maps a name to an empty curve set
C3_NoEmptySet == \A n \in DOMAIN curves : curves[n] # {}

\* a curve got a point, so it was registered, and RemoveCurve has emptied
\* the registry since
C3_Witness ==
  /\ curves = EmptyMap
  /\ \E c \in alive : points[c] # <<>>

\* the filter and the count map have the same keys, and the counts are
\* positive
FilterKeysAgree ==
  /\ DOMAIN introspectFilterCount = introspectFilter
  /\ \A item \in DOMAIN introspectFilterCount :
       introspectFilterCount[item] > 0

\* C4: in every state the filter and the count map have the same keys and
\* every count is positive, and in every step an item of the filter has no
\* count left exactly when the step takes it out of the filter and of the map
C4_FilterAndCounts ==
  /\ []FilterKeysAgree
  /\ [][\A item \in introspectFilter :
          (CountOf(introspectFilterCount', item) = 0)
            <=> (/\ item \notin introspectFilter'
                 /\ item \notin DOMAIN introspectFilterCount')]_vars

\* the last of two names of one item was removed: the item left the filter
\* (the manager still has it, the push of the removal failed)
C4_Witness ==
  /\ setup = "active"
  /\ curves = EmptyMap
  /\ introspectFilter = {simTimeVar}
  /\ remoteFilter = {simTimeVar, PoseItem}

\* C5: once setup has succeeded the sim-time variable is in the filter
C5_SimTimeStaysInFilter == setup = "active" => simTimeVar \in introspectFilter

\* the setup thread returned early
SetupFailed ==
  setup \in {"noManagers", "emptyId", "notRegistered", "newFilterFailed",
             "subscribeFailed"}

\* C10: after a failed setup the handler is inert: it has no subscription,
\* no batch was or is delivered, no curve has a point, and no step sets it up
\* again
C10_FailedSetupIsInert ==
  /\ [](SetupFailed => /\ ~subscribed
                       /\ batches = 0
                       /\ \A c \in Curves : points[c] = <<>>)
  /\ [][SetupFailed => UNCHANGED <<setup, subscribed, managerId,
                                   introspectFilterId, batches, points>>]_vars

\* the subscription failed and a curve was registered afterwards, under a
\* name whose item went into the filter
C10_Witness ==
  /\ setup = "subscribeFailed"
  /\ PosX \in DOMAIN curves
  /\ PoseItem \in introspectFilter

----------------------------------------------------------------------------
(* Properties of the dispatcher *)

\* the result of the collecting loop on the delivered batch
Col == Collect(curves, msg)

\* the registry entry a parameter resolves to, "" if none
EntryOf(p) == FindEntry(curves, p.name)

\* the live curves of an entry
Live(key) == curves[key] \cap alive

\* the curve got the point (x, y) in the call
Got(c, x, y) == \E j \in 1..Len(appended) : appended[j] = <<c, x, y>>

\* the batch without its i-th parameter
Without(m, i) ==
  [j \in 1..(Len(m) - 1) |-> IF j < i THEN m[j] ELSE m[j + 1]]

\* the AddPoint calls the handler makes for the batch m
CallsFor(m) == Dispatch(curves, alive, Collect(curves, m))

LastChar(q) == IF q = "" THEN "" ELSE SubSeq(q, Len(q), Len(q))

Component(vec, elem) ==
  IF elem = "x" THEN vec.x ELSE IF elem = "y" THEN vec.y ELSE vec.z

\* the parameter is the sim-time variable with a time value
IsSimTimeParam(p) == p.name = simTimeVar /\ Has(p.value, "time")

\* the parameter resolves to an entry that holds one live curve, and its
\* value decodes to a scalar
ValidParam(p) ==
  /\ p.name # ""
  /\ p.value.type # "NONE"
  /\ EntryOf(p) # ""
  /\ Cardinality(Live(EntryOf(p))) = 1
  /\ DecodeValueT[EntryOf(p)][p.value].ok

\* a delivered batch of a sim-time parameter followed by valid parameters
SimTimeThenValid ==
  /\ batches = 1
  /\ Len(msg) >= 1
  /\ IsSimTimeParam(msg[1])
  /\ \A i \in 2..Len(msg) : ValidParam(msg[i])

\* every point of the call has the sim time of the batch as its x
AllAtSimTime ==
  \A j \in 1..Len(appended) : appended[j][2] = TimeDouble(msg[1].value.v)

\* C6 as stated: a batch of a sim-time parameter followed by N valid
\* parameters appends exactly N samples, all at the sim time of the batch
C6_ExactlyN ==
  SimTimeThenValid => Len(appended) = Len(msg) - 1 /\ AllAtSimTime

\* the samples the sim-time parameter itself produces: one for every live
\* curve of the entry it resolves to
SimTimeSamples ==
  IF EntryOf(msg[1]) = "" THEN 0 ELSE Cardinality(Live(EntryOf(msg[1])))

\* C6 amended: a batch of a sim-time parameter followed by N valid parameters
\* appends N samples for those parameters and one more for every live curve
\* of the entry the sim-time parameter itself resolves to, all at the sim
\* time of the batch
C6_NPlusSimTimeSamples ==
  SimTimeThenValid =>
    Len(appended) = Len(msg) - 1 + SimTimeSamples /\ AllAtSimTime

\* two valid parameters after the sim-time parameter, which is not plotted
C6_Witness ==
  /\ SimTimeThenValid
  /\ Len(msg) = 3
  /\ EntryOf(msg[1]) = ""
  /\ Len(appended) = 2

\* the value is a quaternion, or a pose of which the key takes the rotation
IsAngular(p, q) ==
  \/ p.value.type = "QUATERNIOND" /\ Has(p.value, "quaternion")
  \/ /\ p.value.type = "POSE3D" /\ Has(p.value, "pose3d")
     /\ ~Contains(q, "position")
     /\ Contains(q, "orientation")

\* the Euler angles of the value
EulerOf(p) == IF p.value.type = "POSE3D" THEN p.value.v.rot ELSE p.value.v

NamesAngle(q) ==
  Contains(q, "roll") \/ Contains(q, "pitch") \/ Contains(q, "yaw")

\* the angle the query asks for: Z for yaw (also next to pitch), X for roll,
\* Y for pitch
AskedAngle(q, euler) ==
  IF Contains(q, "yaw") THEN euler.z
  ELSE IF Contains(q, "roll") THEN euler.x
  ELSE euler.y

\* C7: a quaternion (or the rotation of a pose) gives the live curves of its
\* entry the Euler X angle for a query with "roll", Y for "pitch" unless
\* "yaw" is there too, Z for "yaw"
C7_AngleOfQuery ==
  (batches = 1 /\ ~terminated) =>
    \A i \in 1..Len(msg) :
      LET p == msg[i]
          key == EntryOf(p)
          q == URIQueryStr(key)
      IN  (p.value.type # "NONE" /\ key # "" /\ IsAngular(p, q)
           /\ NamesAngle(q))
            => \A c \in Live(key) :
                 Got(c, Col.simTime, AskedAngle(q, EulerOf(p)))

IsVector(p) == p.value.type = "VECTOR3D" /\ Has(p.value, "vector3d")

\* C8: a 3D vector gives the live curves of its entry the component that the
\* last character of the key's query names; with any other last character,
\* or an empty query, it gives no sample and the call goes on as if the
\* parameter were not in the batch
C8_VectorComponent ==
  batches = 1 =>
    \A i \in 1..Len(msg) :
      LET p == msg[i]
          key == EntryOf(p)
          elem == LastChar(URIQueryStr(key))
      IN  (IsVector(p) /\ key # "")
            => IF elem \in {"x", "y", "z"}
               THEN \A c \in Live(key) :
                      Got(c, Col.simTime, Component(p.value.v, elem))
               ELSE /\ ~terminated
                    /\ appended = CallsFor(Without(msg, i))

IsPose(p) == p.value.type = "POSE3D" /\ Has(p.value, "pose3d")

\* C9: a pose whose name is no key but the prefix of a key gives the live
\* curves of the entry it resolves to the point (sim time, component): the
\* x, y or z of the position named by the last character of the key's query
\* if the query has "position", the angle if it has "orientation", and no
\* point if it has neither
C9_PoseByPrefix ==
  (batches = 1 /\ ~terminated) =>
    \A i \in 1..Len(msg) :
      LET p == msg[i]
          key == EntryOf(p)
          q == URIQueryStr(key)
      IN  (IsPose(p) /\ p.name \notin DOMAIN curves /\ key # "")
            => IF Contains(q, "position")
               THEN LastChar(q) \in {"x", "y", "z"}
                      => \A c \in Live(key) :
                           Got(c, Col.simTime,
                               Component(p.value.v.pos, LastChar(q)))
               ELSE IF Contains(q, "orientation")
               THEN NamesAngle(q)
                      => \A c \in Live(key) :
                           Got(c, Col.simTime, AskedAngle(q, p.value.v.rot))
               ELSE appended = CallsFor(Without(msg, i))

----------------------------------------------------------------------------
(* Properties of AddCurve and RemoveCurve as functions of the state *)

\* the part of the state the filter functions work on
FilterState ==
  [filter |-> introspectFilter, count |-> introspectFilterCount,
   remote |-> remoteFilter]

\* the handler after AddCurve(name, c) in the current state
AfterAdd(name, c, ok) ==
  AddCurveTo(Handler, alive, items, managerId, introspectFilterId, name, c, ok)

\* the handler after RemoveCurve(c) in the current state
AfterRemove(c, ok) ==
  RemoveCurveFrom(Handler, alive, items, managerId, introspectFilterId, c, ok)

\* the names whose set holds the curve
NamesOf(c) == {n \in DOMAIN curves : c \in curves[n]}

\* C11: RemoveCurve with a curve that no set holds, or with an expired
\* curve, leaves the registry, the filter, the counts and the remote filter
\* as they are
C11_RemoveAbsentOrDead ==
  \A c \in Curves, ok \in BOOLEAN :
    (c \notin alive \/ NamesOf(c) = {}) => AfterRemove(c, ok) = Handler

\* an expired curve is still registered, a live one is registered nowhere,
\* and the filter holds the item of a name
C11_Witness ==
  /\ "c2" \notin alive /\ NamesOf("c2") # {}
  /\ "c1" \in alive /\ NamesOf("c1") = {}
  /\ PoseItem \in introspectFilter

\* C12: a second AddCurve(name, c) with the same live curve leaves the
\* registry, the filter, the counts and the remote filter as the first call
\* left them; AddCurve with an expired curve changes nothing
C12_AddCurveIdempotent ==
  \A name \in Names, c \in Curves, ok \in BOOLEAN, ok2 \in BOOLEAN :
    LET first == AfterAdd(name, c, ok)
        second == AddCurveTo(first, alive, items, managerId,
                             introspectFilterId, name, c, ok2)
    IN  IF c \in alive THEN second = first ELSE first = Handler

\* a live curve is registered under a name whose item is in the filter, and
\* an expired curve exists
C12_Witness ==
  /\ "c1" \in alive /\ PosX \in DOMAIN curves /\ "c1" \in curves[PosX]
  /\ CountOf(introspectFilterCount, PoseItem) = 1
  /\ "c2" \notin alive

\* C13: a further curve for a registered name, and the removal of a curve
\* that leaves its set non-empty, leave the filter and the counts as they
\* are; the removal of the last curve of a name deletes the name and takes
\* one from the count of the item the name resolves to, and the item out of
\* the filter when the count is then zero
C13_FilterFollowsEntries ==
  \A c \in alive, ok \in BOOLEAN :
    /\ \A name \in DOMAIN curves :
         /\ AfterAdd(name, c, ok).filter = introspectFilter
         /\ AfterAdd(name, c, ok).count = introspectFilterCount
    /\ NamesOf(c) # {} =>
         LET name == First(NamesOf(c))
             item == FirstMatch(ManagerItems, name)
             after == AfterRemove(c, ok)
         IN  IF curves[name] # {c}
             THEN /\ name \in DOMAIN after.curves
                  /\ after.filter = introspectFilter
                  /\ after.count = introspectFilterCount
             ELSE /\ name \notin DOMAIN after.curves
                  /\ (URIValidT[name] /\ item # "") =>
                       /\ CountOf(after.count, item) =
                            CountOf(introspectFilterCount, item) - 1
                       /\ CountOf(after.count, item) = 0
                            <=> item \notin after.filter

\* C18: the filter and the counts after AddItemToFilter and after
\* RemoveItemFromFilter do not depend on whether the push succeeds; a failed
\* push and a call that does not change the membership of the filter leave
\* the remote filter as it is, and a push that gets through carries the
\* whole local filter
C18_PushIsBestEffort ==
  \A name \in Names :
    LET Pushed(failed, done) ==
          /\ done.filter = failed.filter
          /\ done.count = failed.count
          /\ failed.remote = remoteFilter
          /\ IF done.filter = introspectFilter
             THEN done.remote = remoteFilter
             ELSE (managerId # "" /\ introspectFilterId # "")
                    => done.remote = done.filter
    IN  /\ Pushed(AddItemToFilter(FilterState, items, managerId,
                                   introspectFilterId, name, FALSE),
                   AddItemToFilter(FilterState, items, managerId,
                                   introspectFilterId, name, TRUE))
        /\ Pushed(RemoveItemFromFilter(FilterState, items, managerId,
                                        introspectFilterId, name, FALSE),
                   RemoveItemFromFilter(FilterState, items, managerId,
                                        introspectFilterId, name, TRUE))

\* a push failed after a successful setup: the filter has an item that the
\* remote filter lacks
C18_Witness ==
  /\ setup = "active"
  /\ PoseItem \in introspectFilter
  /\ PoseItem \notin remoteFilter

----------------------------------------------------------------------------
(* Properties of the switch on the type *)

\* the parameter has a value of a type without its value field, or of a type
\* that is none of the seven
AbsentOrOther(p) ==
  /\ p.name # ""
  /\ p.value.type # "NONE"
  /\ \/ p.value.type \notin ValueTypes
     \/ ~Has(p.value, FieldOf(p.value.type))

\* C14: a parameter whose value lacks the field of its type, or has a type
\* that is none of the seven, gives no sample: the call appends what it
\* appends for the batch without the parameter
C14_AbsentFieldNoSample ==
  batches = 1 =>
    \A i \in 1..Len(msg) :
      AbsentOrOther(msg[i]) => appended = CallsFor(Without(msg, i))

----------------------------------------------------------------------------
(* Properties of the resolution, the sim time and the order of the appends *)

\* the number of AddPoint calls for the curve
CountFor(calls, c) == Cardinality({j \in 1..Len(calls) : calls[j][1] = c})

\* the samples the i-th parameter gives the curve: what the call appends
\* for it with the parameter and not without
Contribution(i, c) ==
  CountFor(appended, c) - CountFor(CallsFor(Without(msg, i)), c)

\* the entry the claim resolves a name to: the name itself if it is a key,
\* else the least key, in the order of the strings, that starts with it
ResolvedKey(paramName) ==
  LET keys == {k \in DOMAIN curves : StartsWithT[k][paramName]}
  IN  IF paramName \in DOMAIN curves THEN paramName
      ELSE IF keys = {} THEN ""
      ELSE CHOOSE k \in keys : \A j \in keys \ {k} : StrLess(k, j)

\* C15: a parameter gives samples to the curves of one entry at most: the
\* entry of its own name if there is one, else the first key in iteration
\* order that starts with its name; every live curve of that entry gets one
\* sample if the value decodes, and no other curve gets any
C15_OneEntryPerParameter ==
  (batches = 1 /\ ~terminated) =>
    \A i \in 1..Len(msg) :
      LET key == ResolvedKey(msg[i].name)
      IN  \A c \in Curves :
            IF key # "" /\ c \in curves[key] /\ c \in alive
               /\ DecodeValueT[key][msg[i].value].ok
            THEN Contribution(i, c) = 1
            ELSE Contribution(i, c) = 0

\* two keys start with the name of the parameter and hold different live
\* curves: the curve of the first key got the sample, the other none
C15_Witness ==
  /\ DOMAIN curves = {ValueX, ValueY}
  /\ curves[ValueX] = {"c1"} /\ curves[ValueY] = {"c2"}
  /\ alive = Curves
  /\ msg = <<DoubleP>>
  /\ appended = << <<"c1", 0, DoubleP.value.v>> >>

\* the sim time of a batch: the time of its first sim-time parameter, 0 if
\* it has none
BatchSimTime(m) ==
  LET at == {i \in 1..Len(m) : IsSimTimeParam(m[i])}
  IN  IF at = {} THEN 0
      ELSE TimeDouble(m[CHOOSE i \in at : \A j \in at : i <= j].value.v)

\* C16: every sample of a batch has as x the time of the first sim-time
\* parameter of that batch, wherever it stands in the batch, and 0 if the
\* batch has none, whatever the batch before was
C16_FirstSimTimeOfBatch ==
  \A j \in 1..Len(appended) : appended[j][2] = BatchSimTime(msg)

\* a first batch gave a curve a point at a sim time, the second batch has no
\* sim-time parameter and gave it a point at 0
C16_Witness ==
  /\ batches = 2
  /\ BatchSimTime(msg) = 0
  /\ appended # <<>>
  /\ \E c \in Curves : Len(points[c]) >= 2 /\ points[c][1][1] # 0

\* the AddPoint calls of the buffered pair the i-th parameter makes, none if
\* it makes none: one for every live curve of the entry, in the order of
\* the set, at the sim time of the batch
CallsOfParam(m, i) ==
  LET key == EntryOf(m[i])
      dec == DecodeValueT[key][m[i].value]
      order == CurveOrder(IF key = "" THEN {} ELSE Live(key))
  IN  IF m[i].name = "" \/ m[i].value.type = "NONE" \/ key = "" \/ ~dec.ok
      THEN <<>>
      ELSE [j \in 1..Len(order) |-> <<order[j], BatchSimTime(m), dec.value>>]

RECURSIVE CallsUpTo(_, _)
CallsUpTo(m, i) ==
  IF i = 0 THEN <<>> ELSE CallsUpTo(m, i - 1) \o CallsOfParam(m, i)

\* C17: the appends of a call are those of its buffered pairs in the order
\* of the batch, each for the live curves of its entry only and all at the
\* sim time found in the whole batch, also for a parameter that stands
\* before the sim-time parameter
C17_AppendsAfterCollection ==
  (batches = 1 /\ ~terminated) => appended = CallsUpTo(msg, Len(msg))

\* the parameters before and after the sim-time parameter both got its sim
\* time, each for the curve of its own entry, in the order of the batch
C17_Witness ==
  /\ msg = <<VelP, TimeP, DoubleP>>
  /\ alive = Curves
  /\ DOMAIN curves = {ValueItem, VelX}
  /\ curves[ValueItem] = {"c1"} /\ curves[VelX] = {"c2"}
  /\ appended = << <<"c2", TimeDouble(Time1), VelP.value.v.x>>,
                   <<"c1", TimeDouble(Time1), DoubleP.value.v>> >>

----------------------------------------------------------------------------
(* Properties of the mutex *)

\* C20: at most one thread is inside the body of a method; while
\* OnIntrospection is inside its body no set of the registry is the empty
\* set a RemoveCurve leaves between its two erases, and every entry in
\* curvesUpdates is still an entry of the registry
C20_MutuallyExclusive ==
  /\ Cardinality({t \in Threads : pc[t] # "idle"}) <= 1
  /\ pc["transport"] # "idle" => \A n \in DOMAIN curves : curves[n] # {}
  /\ pc["transport"] = "collected" =>
       \A j \in 1..Len(buffer.updates) :
         buffer.updates[j][1] \in DOMAIN curves

\* OnIntrospection stands between its two loops with an entry buffered
C20_Witness ==
  /\ pc["transport"] = "collected"
  /\ mutex = "transport"
  /\ buffer.updates # <<>>

----------------------------------------------------------------------------
(* AddCurve before or after the critical section of the setup thread *)

\* the body of SetupIntrospection on the handler H, with a manager that
\* answers and both requests getting through
SetupOn(H) ==
  SetupResult([managerId |-> managerId, filter |-> H.filter,
               count |-> H.count, filterId |-> introspectFilterId,
               remote |-> H.remote, subscribed |-> subscribed],
              items, {ManagerName}, TRUE, TRUE)

\* AddCurve(name, c) takes the mutex first, SetupIntrospection after it
AddThenSetup(name, c) ==
  LET H == AfterAdd(name, c, TRUE)
      r == SetupOn(H)
  IN  [curves |-> H.curves, filter |-> r.S.filter, count |-> r.S.count,
       remote |-> r.S.remote]

\* SetupIntrospection takes the mutex first, AddCurve(name, c) after it
SetupThenAdd(name, c) ==
  LET r == SetupOn(Handler)
  IN  AddCurveTo([curves |-> curves, filter |-> r.S.filter,
                  count |-> r.S.count, remote |-> r.S.remote],
                 alive, items, r.S.managerId, r.S.filterId, name, c, TRUE)

\* RemoveCurve(c) on the handler H once the setup has gone through
RemoveAfterSetup(H, c) ==
  RemoveCurveFrom(H, alive, items, SetupOn(Handler).S.managerId,
                  SetupOn(Handler).S.filterId, c, TRUE)

\* C21: while the setup thread has not run, for a valid name that matches
\* an item of the manager and a setup that goes through, AddCurve before
\* the setup and AddCurve after it give the same filter and the same
\* counts, and so does a RemoveCurve of the curve after either
C21_SameFilterEitherOrder ==
  (setup = "pending" /\ SetupOn(Handler).at = "active") =>
    \A name \in Names, c \in alive :
      (URIValidT[name] /\ FirstMatch(items, name) # "") =>
        LET A == AddThenSetup(name, c)
            B == SetupThenAdd(name, c)
            RA == RemoveAfterSetup(A, c)
            RB == RemoveAfterSetup(B, c)
        IN  /\ A.filter = B.filter
            /\ A.count = B.count
            /\ RA.filter = RB.filter
            /\ RA.count = RB.count

====
